---- MODULE Spec2Model ----
(***************************************************************************)
(* Model of src/lamda_function/lab_setup.py: the CloudFormation custom      *)
(* resource handler lambda_handler and the teardown pass terraform_cleanup. *)
(*                                                                          *)
(* Every call to an external service (Glue, IAM, S3, STS, the database,     *)
(* cfnresponse) is one step.  `log` records the calls issued during the     *)
(* current invocation, in order, each with its outcome.  `acct` is the      *)
(* state of the cloud account, which outlives an invocation.  A call on a   *)
(* resource that is present may fail for a reason of the service's own;     *)
(* `faults` counts these failures and MaxFaults bounds them.                *)
(***************************************************************************)
EXTENDS Integers, Sequences, FiniteSets, TLC

\* ----------------------------------------------------------------- bounds
\* Largest number of service failures (other than "not found") in a behaviour.
MaxFaults == 2
\* Largest number of statements sqlparse.split returns for the script.
MaxStmts == 2

\* -------------------------------------------------------------- constants
CREATE == "Create"
DELETE == "Delete"
SUCCESS == "SUCCESS"
FAILED == "FAILED"

glue_jobs ==
    << "de-c4w4a1-api-users-extract-job",
       "de-c4w4a1-api-sessions-extract-job",
       "de-c4w4a1-rds-extract-job",
       "de-c4w4a1-json-transform-job",
       "de-c4w4a1-songs-transform-job" >>

s3_buckets ==
    << "de-c4w4a1-scripts",
       "de-c4w4a1-data-lake",
       "de-c4w4a1-dags",
       "de-c4w4a1-dbt" >>

connection_name == "de-c4w4a1-connection-rds"
iam_role == "de-c4w4a1-glue-role"
iam_policy == "de-c4w4a1-glue-role-policy"

\* ---------------------------------------------------------------- helpers
Range(s) == { s[k] : k \in 1..Len(s) }

\* The orders in which a listing call may return the members of S.
Perms(S) ==
    { s \in [1..Cardinality(S) -> S] : \A x \in S : \E k \in DOMAIN s : s[k] = x }

Call(op, a, b, res) == [op |-> op, a |-> a, b |-> b, res |-> res]

\* ------------------------------------------------------- the event inputs
\* RequestType, and whether the event carries PhysicalResourceId, StackId,
\* RequestId, LogicalResourceId and ResponseURL (read at lines 208-222).
\* Only the Delete branch reads these fields.
Events ==
    { e \in [RequestType : {CREATE, DELETE, "Update"}, complete : BOOLEAN] :
        e.RequestType = DELETE \/ e.complete }

\* ------------------------------------------------ the account at the start
DBNames == {"default", "db1", "db2"}
TableNames == {"t1", "t2"}

Catalogs ==
    { [d \in {} |-> {}],
      [d \in {"default"} |-> {"t1"}],
      [d \in {"db1"} |-> {"t1"}],
      [d \in DBNames |-> IF d = "db1" THEN {"t1", "t2"}
                         ELSE IF d = "db2" THEN {} ELSE {"t1"}] }

\* Nothing provisioned, everything provisioned, partly provisioned.  An
\* inline policy exists only inside its role.
Provisioned ==
    { [jobs |-> {}, conn |-> FALSE, policy |-> FALSE, role |-> FALSE,
       rulesets |-> {}, buckets |-> {}],
      [jobs |-> Range(glue_jobs), conn |-> TRUE, policy |-> TRUE, role |-> TRUE,
       rulesets |-> {"rs1"}, buckets |-> Range(s3_buckets)],
      [jobs |-> {glue_jobs[2], glue_jobs[5]}, conn |-> FALSE, policy |-> FALSE,
       role |-> TRUE, rulesets |-> {}, buckets |-> {s3_buckets[2]}] }

\* The accounts an invocation may start from.  The catalog of three
\* databases comes with the accounts that have little else to delete.
Accounts ==
    { a \in { [jobs |-> p.jobs, conn |-> p.conn, policy |-> p.policy, role |-> p.role,
               rulesets |-> p.rulesets, buckets |-> p.buckets, catalog |-> c] :
                p \in Provisioned, c \in Catalogs } :
        Cardinality(DOMAIN a.catalog) < 3 \/ ~a.conn }

VARIABLES
    event,      \* the LifecycleEvent of the current invocation
    pc,         \* position in lambda_handler / terraform_cleanup
    acct,       \* the cloud account: jobs, catalog, connection, policy, role, ...
    log,        \* calls issued in this invocation, in order
    i,          \* loop index: glue_jobs, sql_list or s3_buckets
    dbList,     \* glue_database_list
    di,         \* position in glue_database_list
    tblList,    \* glue_table_list
    ti,         \* position in glue_table_list
    sql_list,   \* number of statements of the script
    faults,     \* service failures so far
    second,     \* TRUE in the invocation that follows another one
    prevRun,    \* how terraform_cleanup went in the previous invocation
    acct0       \* the account when the current invocation started

vars == << event, pc, acct, log, i, dbList, di, tblList, ti, sql_list,
           faults, second, prevRun, acct0 >>

\* ------------------------------------------------------ control structure
\* Mutation: the role is deleted before its policy.
CleanupStepsRoleFirst ==
    << "rulesets", "jobs", "get_databases", "connection", "role", "policy" >>

\* The fixed sequence of terraform_cleanup, by the first call of each step.
CleanupSteps ==
    << "rulesets", "jobs", "get_databases", "connection", "policy", "role" >>

\* Where terraform_cleanup returns to: line 172 of the Create branch.
AfterCleanup == "fetch"

StepIndex(step) == CHOOSE k \in 1..Len(CleanupSteps) : CleanupSteps[k] = step

StepAfter(step) ==
    IF StepIndex(step) < Len(CleanupSteps)
    THEN CleanupSteps[StepIndex(step) + 1]
    ELSE AfterCleanup

\* Mutation: the Delete branch runs the teardown pass as well.
DispatchDeleteTeardown(e) ==
    IF e.RequestType \in {CREATE, DELETE} THEN CleanupSteps[1] ELSE "send"


\* Mutation: a request type that is not recognised is reported as failed.
DispatchRejectsOther(e) ==
    IF e.RequestType = CREATE THEN CleanupSteps[1]
    ELSE IF e.RequestType = DELETE THEN "buckets"
    ELSE "except"
\* The two `if event["RequestType"] == ...` tests of lambda_handler.
Dispatch(e) ==
    IF e.RequestType = CREATE THEN CleanupSteps[1]
    ELSE IF e.RequestType = DELETE THEN "buckets"
    ELSE "send"

\* Mutation: delete_job is called outside any try block.
HandledNotJob(site, next) == IF site = "delete_job" THEN "except" ELSE next


\* Mutation: empty_bucket lets its error out.
HandledNotBucket(site, next) == IF site = "empty_bucket" THEN "except" ELSE next

\* Mutation: the role deletion is called outside any try block.
HandledNotRole(site, next) == IF site = "delete_role" THEN "except" ELSE next

\* Mutation: a failed listing is logged inside the loop and the walk goes on.
HandledCatalogGoesOn(site, next) ==
    IF site = "catalog" /\ dbList # << >> THEN "walk" ELSE next

\* An `except Exception` clause of terraform_cleanup, delete_table,
\* delete_database or empty_bucket: it logs, and execution goes on at `next`.
Handled(site, next) == next

\* Mutation: the test compares with another spelling of the name.
IsExcludedOtherSpelling(glue_database_name) == glue_database_name = "Default"

\* Mutation: the test for the default database is missing.
IsExcludedNever(glue_database_name) == FALSE

\* `if 'default' == glue_database_name: continue`
IsExcluded(glue_database_name) == glue_database_name = "default"

\* Mutation: the walk stops one database early.
NextDatabaseShort(l, d) ==
    IF d + 1 < Len(l) THEN "walk" ELSE StepAfter("get_databases")

\* for glue_database in glue_database_list: position after entry d of l.
NextDatabase(l, d) ==
    IF d < Len(l) THEN "walk" ELSE StepAfter("get_databases")

\* Mutation: `break` in place of `continue`.
AfterDefaultBreak(l, d) == StepAfter("get_databases")

\* `continue`: the walk goes on with the entry after the default database.
AfterDefault(l, d) == NextDatabase(l, d)

\* Mutation: the last table of the listing is left out.
TablesDoneEarly(l, t) == t >= Len(l)

\* for table in glue_table_list: the loop is over when t is past the list.
TablesDone(l, t) == t > Len(l)

\* Mutation: the loop over glue_jobs leaves out the last job name.
NextJobShort(k) == IF k + 1 < Len(glue_jobs) THEN "jobs" ELSE StepAfter("jobs")

\* for job_name in glue_jobs
NextJob(k) == IF k < Len(glue_jobs) THEN "jobs" ELSE StepAfter("jobs")


\* Mutation: the loop over sql_list leaves out the last statement.
NextStatementShort(n, k) == IF k + 1 < n THEN "execute" ELSE "assume_role"
\* for statement in sql_list, then sts_assume_role
NextStatement(n, k) == IF k < n THEN "execute" ELSE "assume_role"

\* Mutation: a failing statement is logged and the loop goes on.
PropagatesNotExecute(site) ==
    IF site = "execute" THEN NextStatement(sql_list, i) ELSE "except"

\* An error in the try block of lambda_handler that no inner clause catches
\* reaches its `except Exception as exc` clause.
Propagates(site) == "except"

\* Mutation: the signal is sent ahead of the bucket emptying.
AfterSignalEmptiesBuckets == "buckets"

\* Line 225 is the last statement of the try block: once the signal call
\* has returned, lambda_handler returns.
AfterSignal == "done"

\* for s3_bucket in s3_buckets, then the curl payload
NextBucket(k) == IF k < Len(s3_buckets) THEN "buckets" ELSE "curl"

\* --------------------------------------------------- the external services
\* A call may fail for a reason of the service's own while faults remain.
FaultOutcomes == IF faults < MaxFaults THEN {"Failed"} ELSE {}

\* Outcomes of a call that is not a deletion.
CallOutcomes == {"ok"} \cup FaultOutcomes

\* Outcomes of a deletion: of a present target, of an absent one.
DeleteOutcomes(present) ==
    IF present THEN {"Deleted"} \cup FaultOutcomes ELSE {"NotFound"}

Spend(res, forced) == IF res = "Failed" /\ ~forced THEN faults + 1 ELSE faults

DeleteJob(a, name) == [a EXCEPT !.jobs = @ \ {name}]

DeleteTable(a, d, t) == [a EXCEPT !.catalog[d] = @ \ {t}]

\* Glue removes a database together with the tables still in it.
DeleteDatabase(a, d) ==
    [a EXCEPT !.catalog = [x \in (DOMAIN @) \ {d} |-> @[x]]]

DeleteConnection(a) == [a EXCEPT !.conn = FALSE]

DeleteRolePolicy(a) == [a EXCEPT !.policy = FALSE]

DeleteRole(a) == [a EXCEPT !.role = FALSE]

EmptyBucket(a, b) == [a EXCEPT !.buckets = @ \ {b}]

TablePresent(a, d, t) == d \in DOMAIN a.catalog /\ t \in a.catalog[d]

\* ------------------------------------------------------------------- Init
Init ==
    /\ event \in Events
    /\ pc = "start"
    /\ acct \in Accounts
    /\ acct0 = acct
    /\ log = << >>
    /\ prevRun = "none"
    /\ i = 1
    /\ dbList = << >>
    /\ di = 1
    /\ tblList = << >>
    /\ ti = 1
    /\ sql_list = 0
    /\ faults = 0
    /\ second = FALSE

Record(c) == log' = Append(log, c)

\* ------------------------------------------------------- lambda_handler
\* Entry: the try block and the RequestType tests.
Start ==
    /\ pc = "start"
    /\ pc' = Dispatch(event)
    /\ UNCHANGED << event, acct, log, i, dbList, di, tblList, ti, sql_list,
                    faults, second, prevRun, acct0 >>

\* ---------------------------------------------------- terraform_cleanup
\* Lines 94-103.  glue_rulesets is the response dictionary, so the first
\* iteration of the loop raises AttributeError before any deletion call.
ListRulesets ==
    /\ pc = "rulesets"
    /\ \E res \in CallOutcomes :
        /\ Record(Call("list_data_quality_rulesets", "-", "-", res))
        /\ faults' = Spend(res, FALSE)
        /\ pc' = IF res = "ok" /\ acct.rulesets = {}
                 THEN StepAfter("rulesets")
                 ELSE Handled("rulesets", StepAfter("rulesets"))
    /\ i' = 1
    /\ UNCHANGED << event, acct, dbList, di, tblList, ti, sql_list,
                    second, prevRun, acct0 >>

\* Lines 105-111.
DeleteJobStep ==
    /\ pc = "jobs"
    /\ \E res \in DeleteOutcomes(glue_jobs[i] \in acct.jobs) :
        /\ Record(Call("delete_job", glue_jobs[i], "-", res))
        /\ faults' = Spend(res, FALSE)
        /\ acct' = IF res = "Deleted" THEN DeleteJob(acct, glue_jobs[i]) ELSE acct
        /\ pc' = IF res = "Deleted" THEN NextJob(i)
                 ELSE Handled("delete_job", NextJob(i))
    /\ i' = IF i < Len(glue_jobs) THEN i + 1 ELSE 1
    /\ UNCHANGED << event, dbList, di, tblList, ti, sql_list,
                    second, prevRun, acct0 >>

\* Lines 113-114, and 125-127 when the listing fails.
GetDatabases ==
    /\ pc = "get_databases"
    /\ \/ \E l \in Perms(DOMAIN acct.catalog) :
            /\ Record(Call("get_databases", "-", l, "ok"))
            /\ dbList' = l
            /\ pc' = NextDatabase(l, 0)
            /\ UNCHANGED faults
       \/ /\ "Failed" \in FaultOutcomes
          /\ Record(Call("get_databases", "-", "-", "Failed"))
          /\ faults' = Spend("Failed", FALSE)
          /\ dbList' = << >>
          /\ pc' = Handled("catalog", StepAfter("get_databases"))
    /\ di' = 1
    /\ UNCHANGED << event, acct, i, tblList, ti, sql_list, second, prevRun, acct0 >>

\* Lines 116-118.
SkipDefault ==
    /\ pc = "walk"
    /\ IsExcluded(dbList[di])
    /\ pc' = AfterDefault(dbList, di)
    /\ di' = di + 1
    /\ UNCHANGED << event, acct, log, i, dbList, tblList, ti, sql_list,
                    faults, second, prevRun, acct0 >>

\* Lines 119-120, and 125-127 when the listing fails.
GetTables ==
    /\ pc = "walk"
    /\ ~IsExcluded(dbList[di])
    /\ \/ /\ dbList[di] \in DOMAIN acct.catalog
          /\ \E l \in Perms(acct.catalog[dbList[di]]) :
               /\ Record(Call("get_tables", dbList[di], l, "ok"))
               /\ tblList' = l
               /\ pc' = IF TablesDone(l, 1) THEN "delete_database" ELSE "tables"
               /\ UNCHANGED faults
       \/ /\ dbList[di] \in DOMAIN acct.catalog => "Failed" \in FaultOutcomes
          /\ Record(Call("get_tables", dbList[di], "-",
                         IF dbList[di] \in DOMAIN acct.catalog
                         THEN "Failed" ELSE "NotFound"))
          /\ faults' = IF dbList[di] \in DOMAIN acct.catalog
                       THEN Spend("Failed", FALSE) ELSE faults
          /\ tblList' = << >>
          /\ pc' = Handled("catalog", StepAfter("get_databases"))
    /\ ti' = 1
    /\ UNCHANGED << event, acct, i, dbList, di, sql_list, second, prevRun, acct0 >>

\* Lines 121-123 and delete_table, lines 67-77.
delete_table ==
    /\ pc = "tables"
    /\ \E res \in DeleteOutcomes(TablePresent(acct, dbList[di], tblList[ti])) :
        /\ Record(Call("delete_table", dbList[di], tblList[ti], res))
        /\ faults' = Spend(res, FALSE)
        /\ acct' = IF res = "Deleted"
                   THEN DeleteTable(acct, dbList[di], tblList[ti]) ELSE acct
        /\ pc' = IF res = "Deleted"
                 THEN (IF TablesDone(tblList, ti + 1) THEN "delete_database" ELSE "tables")
                 ELSE Handled("delete_table",
                        IF TablesDone(tblList, ti + 1) THEN "delete_database" ELSE "tables")
    /\ ti' = ti + 1
    /\ UNCHANGED << event, i, dbList, di, tblList, sql_list, second, prevRun, acct0 >>

\* Line 124 and delete_database, lines 80-89.
delete_database ==
    /\ pc = "delete_database"
    /\ \E res \in DeleteOutcomes(dbList[di] \in DOMAIN acct.catalog) :
        /\ Record(Call("delete_database", dbList[di], "-", res))
        /\ faults' = Spend(res, FALSE)
        /\ acct' = IF res = "Deleted" THEN DeleteDatabase(acct, dbList[di]) ELSE acct
        /\ pc' = IF res = "Deleted" THEN NextDatabase(dbList, di)
                 ELSE Handled("delete_database", NextDatabase(dbList, di))
    /\ di' = di + 1
    /\ tblList' = << >>
    /\ ti' = 1
    /\ UNCHANGED << event, i, dbList, sql_list, second, prevRun, acct0 >>

\* Lines 129-135.
DeleteConnectionStep ==
    /\ pc = "connection"
    /\ \E res \in DeleteOutcomes(acct.conn) :
        /\ Record(Call("delete_connection", connection_name, "-", res))
        /\ faults' = Spend(res, FALSE)
        /\ acct' = IF res = "Deleted" THEN DeleteConnection(acct) ELSE acct
        /\ pc' = IF res = "Deleted" THEN StepAfter("connection")
                 ELSE Handled("delete_connection", StepAfter("connection"))
    /\ dbList' = << >>
    /\ di' = 1
    /\ UNCHANGED << event, i, tblList, ti, sql_list, second, prevRun, acct0 >>

\* Lines 141-148.
DeleteRolePolicyStep ==
    /\ pc = "policy"
    /\ \E res \in DeleteOutcomes(acct.policy) :
        /\ Record(Call("delete_role_policy", iam_role, iam_policy, res))
        /\ faults' = Spend(res, FALSE)
        /\ acct' = IF res = "Deleted" THEN DeleteRolePolicy(acct) ELSE acct
        /\ pc' = IF res = "Deleted" THEN StepAfter("policy")
                 ELSE Handled("delete_role_policy", StepAfter("policy"))
    /\ UNCHANGED << event, i, dbList, di, tblList, ti, sql_list,
                    second, prevRun, acct0 >>

\* Lines 150-155.  IAM refuses to delete a role that still has its policy.
DeleteRoleStep ==
    /\ pc = "role"
    /\ \E res \in IF acct.role /\ acct.policy THEN {"Failed"}
                  ELSE DeleteOutcomes(acct.role) :
        /\ Record(Call("delete_role", iam_role, "-", res))
        /\ faults' = Spend(res, acct.policy)
        /\ acct' = IF res = "Deleted" THEN DeleteRole(acct) ELSE acct
        /\ pc' = IF res = "Deleted" THEN StepAfter("role")
                 ELSE Handled("delete_role", StepAfter("role"))
    /\ UNCHANGED << event, i, dbList, di, tblList, ti, sql_list,
                    second, prevRun, acct0 >>

terraform_cleanup ==
    \/ ListRulesets
    \/ DeleteJobStep
    \/ GetDatabases
    \/ SkipDefault
    \/ GetTables
    \/ delete_table
    \/ delete_database
    \/ DeleteConnectionStep
    \/ DeleteRolePolicyStep
    \/ DeleteRoleStep

\* ------------------------------------------- lambda_handler, Create branch
\* Lines 174-179: s3.get_object, read, decode, sqlparse.split.
FetchScript ==
    /\ pc = "fetch"
    /\ \/ \E n \in 0..MaxStmts :
            /\ Record(Call("get_object", "-", n, "ok"))
            /\ sql_list' = n
            /\ pc' = "connect"
            /\ UNCHANGED faults
       \/ /\ "Failed" \in FaultOutcomes
          /\ Record(Call("get_object", "-", "-", "Failed"))
          /\ faults' = Spend("Failed", FALSE)
          /\ sql_list' = 0
          /\ pc' = Propagates("get_object")
    /\ UNCHANGED << event, acct, i, dbList, di, tblList, ti, second, prevRun, acct0 >>

\* Lines 182-185: sa.create_engine and engine.connect().
Connect ==
    /\ pc = "connect"
    /\ \E res \in CallOutcomes :
        /\ Record(Call("connect", "-", "-", res))
        /\ faults' = Spend(res, FALSE)
        /\ pc' = IF res = "ok" THEN NextStatement(sql_list, 0) ELSE Propagates("connect")
    /\ i' = 1
    /\ UNCHANGED << event, acct, dbList, di, tblList, ti, sql_list,
                    second, prevRun, acct0 >>

\* Lines 186-189: conn.execute of statement i of sql_list.
ExecuteStatement ==
    /\ pc = "execute"
    /\ \E res \in CallOutcomes :
        /\ Record(Call("execute", i, "-", res))
        /\ faults' = Spend(res, FALSE)
        /\ pc' = IF res = "ok" THEN NextStatement(sql_list, i) ELSE Propagates("execute")
    /\ i' = IF i < sql_list THEN i + 1 ELSE 1
    /\ UNCHANGED << event, acct, dbList, di, tblList, ti, sql_list,
                    second, prevRun, acct0 >>

\* Line 190 and sts_assume_role, lines 49-54.
sts_assume_role ==
    /\ pc = "assume_role"
    /\ \E res \in CallOutcomes :
        /\ Record(Call("assume_role", "-", "-", res))
        /\ faults' = Spend(res, FALSE)
        /\ pc' = IF res = "ok" THEN "import" ELSE Propagates("assume_role")
    /\ UNCHANGED << event, acct, i, dbList, di, tblList, ti, sql_list,
                    second, prevRun, acct0 >>

\* Lines 191-200: the format_load statement.
BulkImport ==
    /\ pc = "import"
    /\ \E res \in CallOutcomes :
        /\ Record(Call("import", "-", "-", res))
        /\ faults' = Spend(res, FALSE)
        /\ pc' = IF res = "ok" THEN "send" ELSE Propagates("import")
    /\ sql_list' = 0
    /\ UNCHANGED << event, acct, i, dbList, di, tblList, ti, second, prevRun, acct0 >>

\* ------------------------------------------- lambda_handler, Delete branch
\* Lines 204-205 and empty_bucket, lines 57-64.
empty_bucket ==
    /\ pc = "buckets"
    /\ \E res \in DeleteOutcomes(s3_buckets[i] \in acct.buckets) :
        /\ Record(Call("empty_bucket", s3_buckets[i], "-", res))
        /\ faults' = Spend(res, FALSE)
        /\ acct' = IF res = "Deleted" THEN EmptyBucket(acct, s3_buckets[i]) ELSE acct
        /\ pc' = IF res = "Deleted" THEN NextBucket(i)
                 ELSE Handled("empty_bucket", NextBucket(i))
    /\ i' = IF i < Len(s3_buckets) THEN i + 1 ELSE 1
    /\ UNCHANGED << event, dbList, di, tblList, ti, sql_list, second, prevRun, acct0 >>

\* Lines 206-224: curl_data reads five fields of the event; a missing one
\* raises KeyError.
BuildCurlCommand ==
    /\ pc = "curl"
    /\ pc' = IF event.complete THEN "send" ELSE Propagates("curl")
    /\ UNCHANGED << event, acct, log, i, dbList, di, tblList, ti, sql_list,
                    faults, second, prevRun, acct0 >>

\* ---------------------------------------------- the completion signal
\* Line 225, inside the try block.
SendSuccess ==
    /\ pc = "send"
    /\ \E res \in CallOutcomes :
        /\ Record(Call("send", SUCCESS, "-", res))
        /\ faults' = Spend(res, FALSE)
        /\ pc' = IF res = "ok" THEN AfterSignal ELSE Propagates("send")
    /\ UNCHANGED << event, acct, i, dbList, di, tblList, ti, sql_list,
                    second, prevRun, acct0 >>

\* Lines 226-228.  An error of this call leaves lambda_handler.
SendFailed ==
    /\ pc = "except"
    /\ \E res \in CallOutcomes :
        /\ Record(Call("send", FAILED, "-", res))
        /\ faults' = Spend(res, FALSE)
        /\ pc' = IF res = "ok" THEN "done" ELSE "crashed"
    /\ i' = 1
    /\ dbList' = << >>
    /\ di' = 1
    /\ tblList' = << >>
    /\ ti' = 1
    /\ sql_list' = 0
    /\ UNCHANGED << event, acct, second, prevRun, acct0 >>

\* The calls terraform_cleanup makes.
CleanupOps ==
    { "list_data_quality_rulesets", "delete_job", "get_databases", "get_tables",
      "delete_table", "delete_database", "delete_connection",
      "delete_role_policy", "delete_role" }

\* What an invocation leaves for the next one to compare with: "none" when
\* it did not run terraform_cleanup to its end, "faulty" when a call of the
\* pass failed on a target that was there, and otherwise "swept" when the
\* pass deleted something and "clean" when it found nothing to delete.
RunSummary(l) ==
    IF ~\E k \in 1..Len(l) : l[k].op = "delete_role" THEN "none"
    ELSE IF \E k \in 1..Len(l) : l[k].op \in CleanupOps /\ l[k].res = "Failed"
         THEN "faulty"
    ELSE IF \E k \in 1..Len(l) : l[k].op \in CleanupOps /\ l[k].res = "Deleted"
         THEN "swept"
    ELSE "clean"

lambda_handler ==
    \/ Start
    \/ terraform_cleanup
    \/ FetchScript
    \/ Connect
    \/ ExecuteStatement
    \/ sts_assume_role
    \/ BulkImport
    \/ empty_bucket
    \/ BuildCurlCommand
    \/ SendSuccess
    \/ SendFailed

\* The orchestrator sends its next event: a second invocation of the
\* handler against the account as the first one left it.
Invoke ==
    /\ pc \in {"done", "crashed"}
    /\ ~second
    /\ second' = TRUE
    /\ event' \in Events
    /\ prevRun' = RunSummary(log)
    /\ log' = << >>
    /\ acct0' = acct
    /\ pc' = "start"
    /\ UNCHANGED << acct, i, dbList, di, tblList, ti, sql_list, faults >>

Next == lambda_handler \/ Invoke

Spec == Init /\ [][Next]_vars

\* ======================================================== the claims
Calls(op) == { k \in 1..Len(log) : log[k].op = op }

\* The position of the first call of op in the log, 0 when there is none.
First(op) ==
    IF Calls(op) = {} THEN 0
    ELSE CHOOSE k \in Calls(op) : \A j \in Calls(op) : k <= j

Sends == Calls("send")

Terminated == pc \in {"done", "crashed"}

\* Positions of terraform_cleanup.
CleanupPcs ==
    { "rulesets", "jobs", "get_databases", "walk", "tables", "delete_database",
      "connection", "policy", "role" }

\* The calls of the provisioning step after its pre-clean.
ProvisioningOps == { "get_object", "connect", "execute", "assume_role", "import" }

ProvisioningRaised ==
    \E k \in 1..Len(log) : log[k].op \in ProvisioningOps /\ log[k].res = "Failed"

\* C1: every invocation sends exactly one completion signal, never two at
\* any point and never zero at its end, whatever succeeds or fails, the
\* signal call included.
C1_ExactlyOneSignal ==
    /\ Cardinality(Sends) <= 1
    /\ Terminated => Cardinality(Sends) = 1

\* C2: the status of a completion signal is FAILED if and only if the event
\* is a Create and the provisioning step raised; otherwise it is SUCCESS.
C2_FailedIffProvisioningRaised ==
    \A k \in Sends :
        /\ log[k].a \in {SUCCESS, FAILED}
        /\ log[k].a = FAILED <=> (event.RequestType = CREATE /\ ProvisioningRaised)

\* The calls every pass of terraform_cleanup issues, in the order of its
\* fixed sequence, all before position `last` of the log.
FullTeardownBefore(last) ==
    LET r == First("list_data_quality_rulesets")
        g == r + Len(glue_jobs) + 1
        c == First("delete_connection")
    IN  /\ r >= 1
        /\ g < c
        /\ c + 2 < last
        /\ \A n \in 1..Len(glue_jobs) :
              log[r + n].op = "delete_job" /\ log[r + n].a = glue_jobs[n]
        /\ log[g].op = "get_databases"
        /\ log[c + 1].op = "delete_role_policy"
        /\ log[c + 2].op = "delete_role"

\* An emptying attempt for every inventory bucket, before position `last`.
BucketsEmptiedBefore(last) ==
    \A n \in 1..Len(s3_buckets) :
        \E k \in 1..last - 1 :
            log[k].op = "empty_bucket" /\ log[k].a = s3_buckets[n]

C4_FaultIsolation ==
    (event.RequestType = CREATE /\ pc \notin CleanupPcs \cup {"start"})
        => FullTeardownBefore(Len(log) + 1)

C4_Witness ==
    /\ pc = "fetch"
    /\ \E k \in Calls("delete_job") : log[k].res = "Failed"
    /\ \E k \in Calls("delete_database") : log[k].res = "Failed"
    /\ FullTeardownBefore(Len(log) + 1)

\* The successful table listings of database d in the log.
TableListings(d) ==
    { j \in Calls("get_tables") : log[j].a = d /\ log[j].res = "ok" }

TableDeletions(d, t) ==
    { m \in Calls("delete_table") : log[m].a = d /\ log[m].b = t }

DatabaseDeletions(d) == { k \in Calls("delete_database") : log[k].a = d }

\* C5: for every database that receives a deletion attempt, the deletion
\* attempt of every table listed for it was issued before, after the
\* listing, whatever the outcome of those table deletions.
C5_TablesBeforeDatabase ==
    \A k \in Calls("delete_database") :
        \E j \in TableListings(log[k].a) :
            /\ j < k
            /\ \A t \in Range(log[j].b) :
                  \E m \in TableDeletions(log[k].a, t) : j < m /\ m < k

C5_Witness ==
    \E k \in Calls("delete_database") :
        /\ Cardinality({ m \in Calls("delete_table") : m < k /\ log[m].a = log[k].a }) = 2
        /\ \E m \in Calls("delete_table") :
              m < k /\ log[m].a = log[k].a /\ log[m].res = "Failed"

\* C6: the database named "default" is never passed to the database
\* deleter, whatever the listing returns and in whatever order, and it is
\* still in the catalog if it was there when the invocation started.
C6_DefaultNeverDeleted ==
    /\ \A k \in Calls("delete_database") : log[k].a # "default"
    /\ "default" \in DOMAIN acct0.catalog => "default" \in DOMAIN acct.catalog

C6_Witness ==
    /\ \E g \in Calls("get_databases") :
          /\ log[g].res = "ok"
          /\ Len(log[g].b) = 3
          /\ log[g].b[2] = "default"
    /\ Cardinality(Calls("delete_database")) = 2
    /\ pc = "connection"

\* C7: when the database listing and every table listing succeeded, a
\* finished catalog walk has issued exactly one deletion attempt for each
\* listed table of each database other than "default", exactly one for each
\* such database, and none for anything else.
C7_ExactlyOnce ==
    LET g == First("get_databases")
        listed == Range(log[g].b) \ {"default"}
    IN  ( /\ Calls("delete_connection") # {}
          /\ log[g].res = "ok"
          /\ \A j \in Calls("get_tables") : log[j].res = "ok" )
        =>
        /\ \A d \in listed :
              /\ Cardinality(DatabaseDeletions(d)) = 1
              /\ Cardinality(TableListings(d)) = 1
              /\ \A j \in TableListings(d) : \A t \in Range(log[j].b) :
                    Cardinality(TableDeletions(d, t)) = 1
        /\ \A k \in Calls("delete_database") : log[k].a \in listed
        /\ \A m \in Calls("delete_table") :
              /\ log[m].a \in listed
              /\ \E j \in TableListings(log[m].a) : log[m].b \in Range(log[j].b)

C7_Witness ==
    /\ pc = "connection"
    /\ \E g \in Calls("get_databases") : log[g].res = "ok" /\ Len(log[g].b) = 3
    /\ \E j \in Calls("get_tables") : log[j].res = "ok" /\ log[j].b = << >>
    /\ \E m \in Calls("delete_table") : log[m].res = "Failed"
    /\ Cardinality(Calls("delete_table")) = 2
    /\ Cardinality(Calls("delete_database")) = 2

\* C8: the policy deletion call is issued before the role deletion call,
\* and the role deletion call follows it whether the policy deletion
\* succeeded or failed.
C8_PolicyBeforeRole ==
    /\ \A k \in Calls("delete_role") :
          \E j \in Calls("delete_role_policy") : j < k
    /\ \A j \in Calls("delete_role_policy") :
          pc # "role" => \E k \in Calls("delete_role") : j < k

C8_Witness ==
    \E j \in Calls("delete_role_policy") :
        /\ log[j].res = "Failed"
        /\ j < Len(log)
        /\ log[j + 1].op = "delete_role"

\* The deletion calls of terraform_cleanup.
DeletionOps == CleanupOps \ {"list_data_quality_rulesets", "get_databases", "get_tables"}

\* terraform_cleanup returns to its caller: the handler of a Create event is
\* past the pass only after the last call of the pass, and an error on its
\* way to the handler's except clause comes from a later call.
ReturnedNormally ==
    (event.RequestType = CREATE /\ pc \notin CleanupPcs \cup {"start"}) =>
        /\ Calls("delete_role") # {}
        /\ pc = "except" => log[Len(log)].op \notin CleanupOps

\* The second of two passes in succession changes nothing.
SecondRunNoOp ==
    /\ \A k \in 1..Len(log) :
          log[k].op \in DeletionOps => log[k].res = "NotFound"
    /\ acct = acct0

C10_FailFastStatements ==
    \A k \in Calls("execute") :
        log[k].res = "Failed" =>
            /\ event.RequestType = CREATE
            /\ log[k].a <= k
            /\ \A m \in 1..log[k].a - 1 :
                  log[k - log[k].a + m] = Call("execute", m, "-", "ok")
            /\ Calls("assume_role") = {}
            /\ Calls("import") = {}
            /\ \A m \in k + 1..Len(log) : log[m].op = "send" /\ log[m].a = FAILED
            /\ IF k = Len(log) THEN pc = "except"
               ELSE Len(log) = k + 1 /\ Terminated

C10_Witness ==
    /\ pc = "done"
    /\ \E k \in Calls("execute") : log[k].a = 2 /\ log[k].res = "Failed"
    /\ log[Len(log)] = Call("send", FAILED, "-", "ok")

\* C11: on a Create event whose provisioning calls all succeed, the calls
\* come in this order: the whole teardown pass, the script fetch, (the
\* database connection,) every statement of the script in script order, the
\* credential exchange, one bulk import, and then the SUCCESS signal.
C11_CreateOrder ==
    (event.RequestType = CREATE /\ ~ProvisioningRaised /\ Sends # {}) =>
        LET f == First("get_object")
            n == log[f].b
        IN  /\ f > 1
            /\ FullTeardownBefore(f)
            /\ log[f - 1].op = "delete_role"
            /\ \A k \in 1..f - 1 : log[k].op \in CleanupOps
            /\ Len(log) >= f + n + 4
            /\ log[f + 1] = Call("connect", "-", "-", "ok")
            /\ \A m \in 1..n : log[f + 1 + m] = Call("execute", m, "-", "ok")
            /\ log[f + n + 2] = Call("assume_role", "-", "-", "ok")
            /\ log[f + n + 3] = Call("import", "-", "-", "ok")
            /\ log[f + n + 4].op = "send"
            /\ log[f + n + 4].a = SUCCESS
            /\ First("send") = f + n + 4

C11_Witness ==
    /\ event.RequestType = CREATE
    /\ pc = "done"
    /\ Calls("get_object") # {}
    /\ log[First("get_object")].res = "ok"
    /\ log[First("get_object")].b = MaxStmts
    /\ Cardinality(Calls("execute")) = MaxStmts
    /\ log[Len(log)] = Call("send", SUCCESS, "-", "ok")

\* C12: on a Delete event that carries all its fields, the emptying attempts
\* are issued for the four inventory buckets in inventory order, whatever
\* the outcome of the earlier ones, and the call that follows them is the
\* SUCCESS signal.
C12_DeleteEmptiesAllBuckets ==
    (event.RequestType = DELETE /\ event.complete) =>
        /\ \A k \in 1..Len(log) :
              IF k <= Len(s3_buckets)
              THEN log[k].op = "empty_bucket" /\ log[k].a = s3_buckets[k]
              ELSE log[k].op = "send"
        /\ pc \notin {"start", "buckets", "curl", "send"} =>
              /\ Len(log) > Len(s3_buckets)
              /\ log[Len(s3_buckets) + 1].a = SUCCESS
        /\ pc \in {"curl", "send"} => Len(log) = Len(s3_buckets)

C12_Witness ==
    /\ event.RequestType = DELETE
    /\ event.complete
    /\ pc = "done"
    /\ log[1].res = "Failed"
    /\ log[3].res = "Failed"
    /\ log[4].res = "Deleted"
    /\ log[Len(log)] = Call("send", SUCCESS, "-", "ok")

\* C13: for an event whose request type is neither Create nor Delete the
\* handler issues no deletion, no bucket emptying, no SQL and no credential
\* call: its only calls are completion signals, the account is unchanged,
\* and the first signal, issued before the handler ends, carries SUCCESS.
C13_OtherRequestType ==
    event.RequestType \notin {CREATE, DELETE} =>
        /\ \A k \in 1..Len(log) : log[k].op = "send"
        /\ acct = acct0
        /\ log # << >> => log[1].a = SUCCESS
        /\ pc \notin {"start", "send"} => log # << >>

C13_Witness ==
    /\ event.RequestType = "Update"
    /\ pc = "done"
    /\ log = << Call("send", SUCCESS, "-", "ok") >>
    /\ acct.jobs # {}

\* C14: when the rule-set listing succeeds with a list that is not empty, a
\* deletion of each listed rule set is issued to the catalog service before
\* the pass goes on to the jobs, and the rule sets whose deletion succeeded
\* are gone.
C14_RulesetsDeleted ==
    \A k \in Calls("list_data_quality_rulesets") :
        (log[k].res = "ok" /\ k < Len(log)) =>
            \A r \in acct0.rulesets :
                \E m \in Calls("delete_data_quality_ruleset") :
                    /\ log[m].a = r
                    /\ log[m].res = "Deleted" => r \notin acct.rulesets

\* How far the catalog walk has come: 0 before it, the position in the
\* database listing during it, past every listing after it.
WalkPos ==
    IF pc \in {"start", "rulesets", "jobs", "get_databases"} THEN 0
    ELSE IF pc \in {"walk", "tables", "delete_database"} THEN di
    ELSE Cardinality(DBNames) + 1

\* A measure that every step of the pass increases.
PassProgress == Len(log) + WalkPos

\* The most calls one pass can make, plus the positions of the walk.
PassBound ==
    Cardinality(CleanupOps) + Len(glue_jobs)
        + Cardinality(DBNames) * (Cardinality(TableNames) + 3)

\* A step taken inside the pass stays in it or returns, and advances.
PassStepAdvances ==
    pc \in CleanupPcs =>
        (pc' \in CleanupPcs \cup {AfterCleanup} /\ PassProgress' > PassProgress)

\* C15: terraform_cleanup terminates and returns to its caller whatever
\* fails: inside the pass a step is always possible, every step increases a
\* bounded measure, and every step stays in the pass or returns to the line
\* after the call, never to the except clause of lambda_handler.
C15_TerminatesAndReturns ==
    /\ [](pc \in CleanupPcs => (ENABLED terraform_cleanup /\ PassProgress <= PassBound))
    /\ [][PassStepAdvances]_vars

C15_Witness ==
    /\ pc = AfterCleanup
    /\ \E k \in Calls("get_tables") : log[k].res = "Failed"
    /\ \E k \in Calls("delete_role") : log[k].res = "Failed"

\* C16: terraform_cleanup issues one deletion attempt for each of the five
\* inventory job names, exactly once and in inventory order: the n-th job
\* deletion of the pass names the n-th job of glue_jobs, and once the pass
\* is beyond the job loop all five attempts have been made, whichever of
\* them failed.
C16_JobsOnceInOrder ==
    LET J == Calls("delete_job")
        f == First("delete_job")
    IN  /\ \A k \in J :
            /\ k - f + 1 \in 1..Len(glue_jobs)
            /\ log[k].a = glue_jobs[k - f + 1]
            /\ \A j \in f..k : j \in J
        /\ (event.RequestType = CREATE /\ pc \notin {"start", "rulesets", "jobs"})
               => Cardinality(J) = Len(glue_jobs)

\* The first job deletion failed and the four after it were attempted.
C16_Witness ==
    /\ pc = "get_databases"
    /\ Len(glue_jobs) = 5
    /\ log[First("delete_job")].res = "Failed"
    /\ Cardinality(Calls("delete_job")) = 5
    /\ log[First("delete_job") + 4].a = glue_jobs[5]

\* Positions of the failed listings of the catalog walk.
FailedListings ==
    { k \in Calls("get_databases") \cup Calls("get_tables") : log[k].res # "ok" }

\* C17: a failed database listing or table listing ends the catalog walk:
\* no table listing, table deletion or database deletion is issued after it
\* in that pass, and the pass goes on with the connection deletion, then the
\* policy deletion, then the role deletion.
C17_ListingFailureStopsWalk ==
    \A k \in FailedListings :
        /\ \A j \in (k + 1)..Len(log) :
              log[j].op \notin {"get_tables", "delete_table", "delete_database"}
        /\ IF k = Len(log) THEN pc = "connection"
           ELSE log[k + 1].op = "delete_connection"
        /\ IF k + 1 = Len(log) THEN pc = "policy"
           ELSE k + 1 < Len(log) => log[k + 2].op = "delete_role_policy"
        /\ IF k + 2 = Len(log) THEN pc = "role"
           ELSE k + 2 < Len(log) => log[k + 3].op = "delete_role"

\* The table listing of the first database of a longer listing failed; the
\* pass ended with the role deletion and every database is still there.
C17_Witness ==
    /\ Calls("delete_role") # {}
    /\ Calls("delete_database") = {}
    /\ \E k \in Calls("get_tables") :
          /\ log[k].res = "Failed"
          /\ Len(log[First("get_databases")].b) >= 2
          /\ log[First("get_databases")].b[1] = log[k].a
          /\ \A n \in 1..Len(log[First("get_databases")].b) :
                log[First("get_databases")].b[n] \in DOMAIN acct.catalog

\* C18: the completion signal is the last external action of an invocation:
\* every call issued after a signal call is itself a signal call, and an
\* invocation that has not reached its final step has issued no signal (in
\* the except clause, the only signal call there can have been is one that
\* raised).
C18_SignalIsLast ==
    /\ \A k \in Sends : \A j \in (k + 1)..Len(log) : log[j].op = "send"
    /\ pc \notin {"except", "done", "crashed"} => Sends = {}
    /\ pc = "except" => \A k \in Sends : log[k].res = "Failed"

\* A Create invocation that ran every step and then sent its signal.
C18_Witness ==
    /\ pc = "done"
    /\ Calls("delete_role") # {}
    /\ Calls("import") # {}
    /\ Cardinality(Sends) = 1
    /\ log[Len(log)].op = "send"
    /\ log[Len(log)].res = "ok"

\* C19: the catalog walk leaves the tables of the database named "default"
\* untouched: no table listing and no table deletion is issued with
\* "default" as the database name, and the database keeps the tables it had
\* when the invocation started.
C19_DefaultTablesUntouched ==
    /\ \A k \in Calls("get_tables") \cup Calls("delete_table") :
          log[k].a # "default"
    /\ "default" \in DOMAIN acct0.catalog =>
          /\ "default" \in DOMAIN acct.catalog
          /\ acct.catalog["default"] = acct0.catalog["default"]

\* The walk met the default database, which has tables, and went on to
\* delete the tables of another database.
C19_Witness ==
    /\ Calls("delete_connection") # {}
    /\ "default" \in DOMAIN acct.catalog
    /\ acct.catalog["default"] # {}
    /\ log[First("get_databases")].res = "ok"
    /\ \E n \in 1..Len(log[First("get_databases")].b) :
          log[First("get_databases")].b[n] = "default"
    /\ \E k \in Calls("delete_table") : log[k].res = "Deleted"

====
